---- MODULE Spec2Model ----
(***************************************************************************)
(* A model of lib/cmds/initialize.ts: the process driver                   *)
(* (runAndroidSDKCommand, respondFactory), the sequential runner           *)
(* (sequentialForEach), the device descriptor (AVDDescriptor) and the      *)
(* provisioning run (android).                                             *)
(*                                                                         *)
(* Strings are sequences of symbols.  A symbol is a one-character string,  *)
(* or, in a text no code takes apart below the symbol boundary, a run of   *)
(* characters written as one string.  JavaScript values that promises and  *)
(* events carry are tagged records.                                        *)
(***************************************************************************)
EXTENDS Integers, Sequences, FiniteSets, TLC

VARIABLES
  children,        \* the invocations of runAndroidSDKCommand, in spawn order
  request,         \* the arguments of android() and the host's os.type()
  stage,           \* android(): the promise that ends stage 1..8
  called,          \* android(): the stages whose .then callback has run
  installs,        \* the spawnSync calls of setupHardwareAcceleration
  glob,            \* getAVDDescriptors: "idle", "pending" or "done"
  avdDescriptors,  \* android(): let avdDescriptors
  runs,            \* sequentialForEach: one runner per use
  hw,              \* configureAVDHardware: the step each position is at
  mk,              \* makeAVD: per position, the promise of .then(noop, noop)
  ops,             \* the per-item operation of the runner under test
  disk,            \* the files this run wrote
  saving,          \* android(): the write of the manifest file
  trace,           \* every operation started, in order
  thrown,          \* what .done() rethrew
  call             \* a function called on its own: its arguments and results

cmdVars == <<children>>
seqVars == <<runs, ops>>
runVars == <<request, stage, called, installs, glob, avdDescriptors, hw, mk,
             disk, saving, trace, thrown, call>>
vars == <<children, request, stage, called, installs, glob, avdDescriptors,
          runs, hw, mk, ops, disk, saving, trace, thrown, call>>

(* ------------------------------ bounds -------------------------------- *)

\* exit/error events one child process delivers
MaxEvents == 2
\* stdout chunks one child process delivers
MaxChunks == 2
\* symbols in one stdout chunk
MaxChunkLen == 2
\* items in the collection of the runner under test
MaxItems == 3
\* entries in each list passed to getAndroidSDKTargets
MaxList == 2
\* hyphen-separated tokens in the name of a descriptor
MaxTokens == 5
\* lines in a hardware.ini before the run
MaxLines == 2
\* applications of configureAVDHardware to one file
MaxEdits == 2
\* system images the directory scan finds
MaxAVDs == 2

(* --------------------------- JavaScript values ------------------------- *)

Undefined == [t |-> "undefined"]
Null == [t |-> "null"]
Num(n) == [t |-> "number", n |-> n]
Err(m) == [t |-> "Error", msg |-> m]

\* if (v): null, undefined and 0 are falsy
Truthy(v) == CASE v.t = "number" -> v.n /= 0
               [] v.t = "Error" -> TRUE
               [] OTHER -> FALSE

(* ------------------------------- strings -------------------------------- *)

\* String.prototype.indexOf, 0-based, -1 when absent
IndexOf(s, q) ==
  LET hits == {i \in 0..(Len(s) - Len(q)) : SubSeq(s, i + 1, i + Len(q)) = q}
  IN IF hits = {} THEN -1 ELSE CHOOSE i \in hits : \A j \in hits : i <= j

RECURSIVE Join(_, _)
\* Array.prototype.join
Join(parts, sep) ==
  IF parts = <<>> THEN <<>>
  ELSE IF Len(parts) = 1 THEN parts[1]
  ELSE parts[1] \o sep \o Join(Tail(parts), sep)

RECURSIVE Split(_, _)
\* String.prototype.split on a one-symbol separator
Split(s, sep) ==
  LET i == IndexOf(s, <<sep>>)
  IN IF i = -1 THEN <<s>>
     ELSE <<SubSeq(s, 1, i)>> \o Split(SubSeq(s, i + 2, Len(s)), sep)

\* a slice that takes a negative end for the end of the string
SliceToEnd(s, b, e) ==
  LET n == Len(s)
      from == IF b < 0 THEN (IF n + b < 0 THEN 0 ELSE n + b)
              ELSE (IF b > n THEN n ELSE b)
      to == IF e < 0 THEN n ELSE (IF e > n THEN n ELSE e)
  IN IF to <= from THEN <<>> ELSE SubSeq(s, from + 1, to)
\* String.prototype.slice(b, e): negative positions count from the end
Slice(s, b, e) ==
  LET n == Len(s)
      from == IF b < 0 THEN (IF n + b < 0 THEN 0 ELSE n + b)
              ELSE (IF b > n THEN n ELSE b)
      to == IF e < 0 THEN (IF n + e < 0 THEN 0 ELSE n + e)
            ELSE (IF e > n THEN n ELSE e)
  IN IF to <= from THEN <<>> ELSE SubSeq(s, from + 1, to)

LowerCase ==
  <<"a", "b", "c", "d", "e", "f", "g", "h", "i", "j", "k", "l", "m",
    "n", "o", "p", "q", "r", "s", "t", "u", "v", "w", "x", "y", "z">>
UpperCase ==
  <<"A", "B", "C", "D", "E", "F", "G", "H", "I", "J", "K", "L", "M",
    "N", "O", "P", "Q", "R", "S", "T", "U", "V", "W", "X", "Y", "Z">>
DigitText == <<"0", "1", "2", "3", "4", "5", "6", "7", "8", "9">>
Digits == {DigitText[i] : i \in 1..Len(DigitText)}
IsLower(c) == \E i \in 1..Len(LowerCase) : LowerCase[i] = c
IsDigit(c) == c \in Digits

\* String.prototype.toUpperCase
ToUpperCase(s) ==
  [k \in 1..Len(s) |->
     IF IsLower(s[k])
     THEN UpperCase[CHOOSE i \in 1..Len(LowerCase) : LowerCase[i] = s[k]]
     ELSE s[k]]

\* a test that never finds a variant
MatchesNever(s) == FALSE
\* /v[0-9]+[a-z]+/.test(s): the pattern is not anchored
MatchesVariant(s) ==
  \E i \in 1..Len(s) : \E j \in (i + 2)..Len(s) :
     /\ s[i] = "v"
     /\ \A k \in (i + 1)..(j - 1) : IsDigit(s[k])
     /\ IsLower(s[j])

(* ------------------------------ promises ------------------------------- *)

Pending == [state |-> "pending"]
Fulfilled(v) == [state |-> "fulfilled", value |-> v]
Rejected(r) == [state |-> "rejected", reason |-> r]

(* --------------------------- respondFactory ---------------------------- *)

NoConfig == [question |-> <<>>, answer |-> <<>>, listens |-> FALSE]
\* respondFactory(question, answer): the configuration it returns installs a
\* 'data' listener on the child's stdout
respondFactory(question, answer) ==
  [question |-> question, answer |-> answer, listens |-> TRUE]

LicenseQuestion == <<"Do you accept ", "the license">>
ProfileQuestion == <<"Do you wish to create ", "a custom hardware profile">>

\* a 'data' event without data
NullData == <<"\\null">>

\* a listener that tests the chunk together with all the output before it
RespondWritesBuffered(cfg, seen, data) ==
  IF data /= NullData /\ IndexOf(Join(seen, <<>>) \o data, cfg.question) /= -1
  THEN <<cfg.answer \o <<"\n">>>>
  ELSE <<>>
\* the 'data' listener: what it writes to the child's stdin for one chunk
\* (seen: the chunks before it, which the listener does not keep)
RespondWrites(cfg, seen, data) ==
  IF data /= NullData
  THEN IF IndexOf(data, cfg.question) /= -1
       THEN <<cfg.answer \o <<"\n">>>>
       ELSE <<>>
  ELSE <<>>

(* ------------------------ runAndroidSDKCommand ------------------------- *)

\* q.defer(): resolve and reject act on a pending promise only
QResolve(p, v) == IF p.state = "pending" THEN Fulfilled(v) ELSE p
QReject(p, r) == IF p.state = "pending" THEN Rejected(r) ELSE p

\* The state of one invocation: the child it spawned, the listeners'
\* variable `deferred` (deferredNull: it was set to null), the promise it
\* returned, and who waits for that promise (owner).  calls, first, nevents,
\* out and stdin record what happened to it: the resolve/reject calls made,
\* the first exit/error event, the number of such events, the stdout chunks
\* and the writes to the child's stdin.
runAndroidSDKCommand(cmd, args, stdio, config, owner) ==
  [cmd |-> cmd, args |-> args, stdio |-> stdio, config |-> config,
   owner |-> owner, promise |-> Pending, deferredNull |-> FALSE,
   calls |-> 0, first |-> [ev |-> "none"], nevents |-> 0,
   out |-> <<>>, stdin |-> <<>>]

\* an 'exit' listener that resolves for status 0 only
OnExitStrict(c, code) ==
  IF ~c.deferredNull
  THEN [c EXCEPT !.promise = IF code = Num(0) THEN QResolve(@, Undefined)
                             ELSE QReject(@, code),
                 !.calls = @ + 1,
                 !.deferredNull = TRUE]
  ELSE c
\* child.on('exit', ...) without the guard on `deferred`
OnExitUnguarded(c, code) ==
  [c EXCEPT !.promise = IF Truthy(code) THEN QReject(@, code)
                        ELSE QResolve(@, Undefined),
            !.calls = @ + 1]
\* child.on('exit', (code) => ...)
OnExit(c, code) ==
  IF ~c.deferredNull
  THEN [c EXCEPT !.promise = IF Truthy(code) THEN QReject(@, code)
                             ELSE QResolve(@, Undefined),
                 !.calls = @ + 1,
                 !.deferredNull = TRUE]
  ELSE c

\* a driver without an 'error' listener
OnErrorIgnored(c, err) == c
\* child.on('error', ...) resolving instead of rejecting
OnErrorResolves(c, err) ==
  IF ~c.deferredNull
  THEN [c EXCEPT !.promise = QResolve(@, Undefined),
                 !.calls = @ + 1,
                 !.deferredNull = TRUE]
  ELSE c
\* child.on('error', (err) => ...)
OnError(c, err) ==
  IF ~c.deferredNull
  THEN [c EXCEPT !.promise = QReject(@, err),
                 !.calls = @ + 1,
                 !.deferredNull = TRUE]
  ELSE c

\* an exit or error event, as the history fields record it
Seen(c, e) ==
  [c EXCEPT !.first = IF c.nevents = 0 THEN e ELSE @, !.nevents = @ + 1]

\* the status codes an 'exit' event carries (null: ended by a signal) and the
\* errors an 'error' event carries
ExitCodes == {Num(0), Num(1), Null}
SpawnErrors == {Err("ENOENT")}

(* ----------------------------- AVDDescriptor --------------------------- *)

\* an argument that was not passed, and how a string concatenation prints it
NoArg == <<"\\undefined">>
UndefinedText == <<"u", "n", "d", "e", "f", "i", "n", "e", "d">>

DEFAULT == <<"D", "E", "F", "A", "U", "L", "T">>
AndroidPrefix == <<"a", "n", "d", "r", "o", "i", "d", "-">>
Arm == <<"a", "r", "m">>

\* nameParts[i] of the constructor, 0-based; NoArg past the end
Part(parts, i) == IF i >= 0 /\ i < Len(parts) THEN parts[i + 1] ELSE NoArg
Text(x) == IF x = NoArg THEN UndefinedText ELSE x

\* the from-name constructor reads .slice of a missing second-to-last token:
\* a TypeError
AVDDescriptorThrows(api, platform) ==
  /\ platform = NoArg
  /\ LET nameParts == Split(api, "-")
     IN /\ MatchesVariant(Part(nameParts, Len(nameParts) - 1))
        /\ Part(nameParts, Len(nameParts) - 2) = NoArg

\* an abi that leaves the platform out only when it is spelled DEFAULT
AbiExactCase(platform, architecture) ==
  (IF platform = DEFAULT THEN <<>> ELSE platform \o <<"/">>) \o architecture
\* this.abi
Abi(platform, architecture) ==
  (IF ToUpperCase(platform) = DEFAULT THEN <<>> ELSE platform \o <<"/">>)
    \o architecture

\* new AVDDescriptor(api, platform, architecture), and new AVDDescriptor(name)
\* when platform is NoArg
AVDDescriptor(api, platform, architecture) ==
  IF platform /= NoArg
  THEN [api |-> api, platform |-> platform, architecture |-> architecture,
        abi |-> Abi(platform, architecture),
        name |-> Join(<<api, platform, architecture>>, <<"-">>)]
  ELSE LET name == api
           nameParts == Split(name, "-")
           n == Len(nameParts)
           theApi == Part(nameParts, 0) \o <<"-">> \o Text(Part(nameParts, 1))
           arch == IF /\ MatchesVariant(Part(nameParts, n - 1))
                      /\ Slice(Part(nameParts, n - 2), 0, 3) = Arm
                   THEN Part(nameParts, n - 2) \o <<"-">> \o Part(nameParts, n - 1)
                   ELSE Part(nameParts, n - 1)
           plat == Slice(name, Len(theApi) + 1, 0 - Len(arch) - 1)
       IN [api |-> theApi, platform |-> plat, architecture |-> arch,
           abi |-> Abi(plat, arch), name |-> name]

\* avdName(version)
avdName(desc, version) ==
  desc.name \o <<"-", "v">> \o version \o <<"-", "w", "d", "-", "m", "a", "n", "a", "g", "e", "r">>

(* -------------------------- getAndroidSDKTargets ----------------------- *)

SysImgPrefix == <<"s", "y", "s", "-", "i", "m", "g", "-">>
Android == <<"a", "n", "d", "r", "o", "i", "d">>

getSysImgTarget(architecture, platform, level) ==
  LET p == IF ToUpperCase(platform) = DEFAULT THEN Android ELSE platform
  IN SysImgPrefix \o architecture \o <<"-">> \o p \o <<"-">> \o level

\* a test that finds nothing, so that every target is pushed
NotInAlways(arr, x) == TRUE
\* Array.prototype.indexOf(x) == -1
NotIn(arr, x) == \A i \in 1..Len(arr) : arr[i] /= x

RECURSIVE Flatten(_)
Flatten(ss) == IF ss = <<>> THEN <<>> ELSE Head(ss) \o Flatten(Tail(ss))

\* the targets of the requested lists: one per level, then one per
\* (architecture, platform, level)
RequestedTargets(apiLevels, architectures, platforms) ==
  [i \in 1..Len(apiLevels) |-> AndroidPrefix \o apiLevels[i]]
    \o Flatten([a \in 1..Len(architectures) |->
         Flatten([p \in 1..Len(platforms) |->
           [l \in 1..Len(apiLevels) |->
              getSysImgTarget(architectures[a], platforms[p], apiLevels[l])]])])

RECURSIVE AddOldAVDs(_, _)
\* oldAVDs.forEach(...)
AddOldAVDs(targets, oldAVDs) ==
  IF oldAVDs = <<>> THEN targets
  ELSE LET avd == AVDDescriptor(Head(oldAVDs), NoArg, NoArg)
           t1 == IF NotIn(targets, avd.api) THEN Append(targets, avd.api)
                 ELSE targets
           sysImgTarget ==
             getSysImgTarget(avd.architecture, avd.platform,
                             Slice(avd.api, Len(AndroidPrefix), Len(avd.api)))
           t2 == IF NotIn(t1, sysImgTarget) THEN Append(t1, sysImgTarget)
                 ELSE t1
       IN AddOldAVDs(t2, Tail(oldAVDs))

getAndroidSDKTargets(apiLevels, architectures, platforms, oldAVDs) ==
  AddOldAVDs(RequestedTargets(apiLevels, architectures, platforms), oldAVDs)

(* --------------------------- sequentialForEach ------------------------- *)

Runners == {"test", "configure", "makeAVD"}
NoRunner == [active |-> FALSE, array |-> <<>>, ret |-> <<>>, called |-> {}]

\* sequentialForEach(array, func): array.forEach chains one .then per item;
\* ret[k] is `ret` after the k-th iteration
sequentialForEach(array) ==
  [active |-> TRUE, array |-> array,
   ret |-> [k \in 1..Len(array) |-> Pending], called |-> {}]

\* `ret` before the k-th iteration: q(null) for the first
Before(r, k) == IF k = 1 THEN Fulfilled(Null) ELSE r.ret[k - 1]
\* return ret
Returned(r) == IF r.array = <<>> THEN Fulfilled(Null) ELSE r.ret[Len(r.array)]

\* a runner that calls func on every item at once
SeqReadyAtOnce(r, k) ==
  /\ r.active /\ k \in 1..Len(r.array) /\ k \notin r.called
\* a runner whose callback also runs after a rejection
SeqReadyAlways(r, k) ==
  /\ r.active /\ k \in 1..Len(r.array) /\ k \notin r.called
  /\ Before(r, k).state /= "pending"
\* ret.then(() => func(x)): the callback of the k-th item runs once `ret`
\* before it is fulfilled
SeqReady(r, k) ==
  /\ r.active /\ k \in 1..Len(r.array) /\ k \notin r.called
  /\ Before(r, k).state = "fulfilled"

\* .then without a rejection handler: a rejection passes to the next promise
SeqSkips(r, k) ==
  /\ r.active /\ k \in 1..Len(r.array) /\ k \notin r.called
  /\ r.ret[k].state = "pending"
  /\ Before(r, k).state = "rejected"

\* the k-th callback was called
Invoked(r, k) == [r EXCEPT !.called = @ \cup {k}]
\* the promise func returned for the k-th item settled as p, and ret[k] with it
Settle(r, k, p) == [r EXCEPT !.ret[k] = IF @.state = "pending" THEN p ELSE @]

(* ------------------------------- commands ------------------------------ *)

Word(s) == <<s>>

\* downloadAndroidUpdates(sdkPath, targets, search_all, auto_accept)
downloadAndroidUpdates(targets, search_all, auto_accept, owner) ==
  runAndroidSDKCommand(
    "update",
    <<Word("sdk"), Word("-u")>>
      \o (IF search_all THEN <<Word("-a")>> ELSE <<>>)
      \o <<Word("-t"), Join(targets, <<",">>)>>,
    IF auto_accept THEN "pipe" ELSE "inherit",
    IF auto_accept THEN respondFactory(LicenseQuestion, <<"y">>) ELSE NoConfig,
    owner)

\* makeAVD: the delete command
DeleteAVD(desc, version, owner) ==
  runAndroidSDKCommand(
    "delete", <<Word("avd"), Word("--name"), avdName(desc, version)>>,
    "undefined", NoConfig, owner)

\* makeAVD: the create command
CreateAVD(desc, version, owner) ==
  runAndroidSDKCommand(
    "create",
    <<Word("avd"), Word("--name"), avdName(desc, version),
      Word("--target"), desc.api, Word("--abi"), desc.abi>>,
    "pipe", respondFactory(ProfileQuestion, <<"n", "o">>), owner)

\* .then(noop) in place of .then(noop, noop)
ThenNoop(p) == IF p.state = "rejected" THEN p ELSE Fulfilled(Undefined)
\* makeAVD: .then(noop, noop) on the settled promise of the delete command
ThenNoopNoop(p) == Fulfilled(Undefined)

Caller == [kind |-> "caller", k |-> 0]
StageOwner(s) == [kind |-> "stage", k |-> s]
DeleteOwner(k) == [kind |-> "delete", k |-> k]
CreateOwner(k) == [kind |-> "create", k |-> k]

\* The promise of an invocation settled as p: what follows it.  A stage's
\* promise follows its command; .then(noop, noop) follows a delete, and the
\* create callback after it has no rejection handler; the runner's ret
\* follows a create.
Notify(owner, p) ==
  CASE owner.kind = "stage" ->
         /\ stage' = [stage EXCEPT ![owner.k] = p]
         /\ UNCHANGED <<mk, runs>>
    [] owner.kind = "delete" ->
         /\ mk' = [mk EXCEPT ![owner.k].swallowed = ThenNoopNoop(p)]
         /\ runs' = IF ThenNoopNoop(p).state = "rejected"
                    THEN [runs EXCEPT !["makeAVD"] =
                            Settle(@, owner.k, ThenNoopNoop(p))]
                    ELSE runs
         /\ UNCHANGED stage
    [] owner.kind = "create" ->
         /\ runs' = [runs EXCEPT !["makeAVD"] = Settle(@, owner.k, p)]
         /\ UNCHANGED <<stage, mk>>
    [] OTHER -> UNCHANGED <<stage, mk, runs>>

\* the child of invocation i emits 'exit' with a status code
ChildExit(i, code) ==
  /\ i \in 1..Len(children)
  /\ children[i].nevents < MaxEvents
  /\ LET c == OnExit(children[i], code)
     IN /\ children' = [children EXCEPT ![i] = Seen(c, [ev |-> "exit", code |-> code])]
        /\ IF c.promise /= children[i].promise
           THEN Notify(c.owner, c.promise)
           ELSE UNCHANGED <<stage, mk, runs>>
  /\ UNCHANGED <<request, called, installs, glob, avdDescriptors, hw, ops,
                 disk, saving, trace, thrown, call>>

\* the child of invocation i emits 'error'
ChildError(i, err) ==
  /\ i \in 1..Len(children)
  /\ children[i].nevents < MaxEvents
  /\ LET c == OnError(children[i], err)
     IN /\ children' = [children EXCEPT ![i] = Seen(c, [ev |-> "error", err |-> err])]
        /\ IF c.promise /= children[i].promise
           THEN Notify(c.owner, c.promise)
           ELSE UNCHANGED <<stage, mk, runs>>
  /\ UNCHANGED <<request, called, installs, glob, avdDescriptors, hw, ops,
                 disk, saving, trace, thrown, call>>

\* the stdout of the child of invocation i emits 'data'; only a configured
\* child has a listener
ChildData(i, data) ==
  /\ i \in 1..Len(children)
  /\ children[i].config.listens
  /\ Len(children[i].out) < MaxChunks
  /\ children' = [children EXCEPT
       ![i].stdin = @ \o RespondWrites(children[i].config, children[i].out, data),
       ![i].out = Append(@, data)]
  /\ UNCHANGED <<request, stage, called, installs, glob, avdDescriptors, runs,
                 hw, mk, ops, disk, saving, trace, thrown, call>>

(* ------------------------------ the inputs ----------------------------- *)

BoundedSeq(S, n) == UNION {[1..m -> S] : m \in 0..n}

Api23 == AndroidPrefix \o <<"2", "3">>
Api24 == AndroidPrefix \o <<"2", "4">>
DefaultPlatform == <<"d", "e", "f", "a", "u", "l", "t">>
GoogleApis == <<"g", "o", "o", "g", "l", "e", "_", "a", "p", "i", "s">>
X86 == <<"x", "8", "6">>
ArmV7a == <<"a", "r", "m", "e", "a", "b", "i", "-", "v", "7", "a">>

\* the system images a directory scan can find: the last three segments of
\* each path
Images == {<<Api24, DefaultPlatform, X86>>,
           <<Api23, GoogleApis, ArmV7a>>,
           <<Api24, GoogleApis, X86>>}

Stages == 1..8
NoPromise == [state |-> "none"]
NoRequest == [osType |-> "none"]
NoFiles == [f \in {} |-> <<>>]
NoCall == [fn |-> "none"]

\* nothing of a provisioning run exists
NoRun ==
  /\ stage = [s \in Stages |-> NoPromise]
  /\ called = {}
  /\ installs = <<>>
  /\ glob = "idle"
  /\ avdDescriptors = <<>>
  /\ hw = <<>>
  /\ mk = <<>>
  /\ disk = NoFiles
  /\ saving = [state |-> "idle"]
  /\ trace = <<>>
  /\ thrown = NoPromise

(* ---------------------- setupHardwareAcceleration ---------------------- *)

Desktop(osType) == osType = "Darwin" \/ osType = "Windows_NT"

HAXM == <<Word("extras"), Word("intel"),
          Word("Hardware_Accelerated_Execution_Manager")>>

\* setupHardwareAcceleration(sdkPath): the spawnSync calls it makes, each
\* with what spawnSync returned
setupHardwareAcceleration(osType, result) ==
  IF osType = "Darwin"
  THEN <<[message |-> "Enabling hardware acceleration (requires root access)",
          file |-> "sudo",
          args |-> <<HAXM \o <<Word("silent_install.sh")>>>>,
          result |-> result]>>
  ELSE IF osType = "Windows_NT"
  THEN <<[message |-> "Enabling hardware acceleration (requires admin access)",
          file |-> "cmd",
          args |-> <<Word("/c"), Word("runas"), Word("/noprofile"),
                     Word("/user:Administrator"),
                     HAXM \o <<Word("silent_install.bat")>>>>,
          result |-> result]>>
  ELSE <<>>

\* what spawnSync can return: a status code, or the error of a failed spawn
SpawnSyncResults == {Num(0), Num(1), Err("EACCES")}

\* a stage that fails when the installer did
HardwareAccelerationChecked(made) ==
  IF \E i \in 1..Len(made) : made[i].result /= Num(0)
  THEN Rejected(made[1].result)
  ELSE Fulfilled(Undefined)
\* android(): .then(() => { return setupHardwareAcceleration(sdkPath); }):
\* the function returns nothing, whatever spawnSync returned
HardwareAccelerationStage(made) == Fulfilled(Undefined)

(* --------------------------- getAVDDescriptors ------------------------- *)

SystemImages == Word("system-images")

\* glob's matches of system-images/*/*/*, each split at the path separator
Scans ==
  {[i \in 1..Len(order) |-> <<SystemImages>> \o order[i]] :
     order \in {o \in BoundedSeq(Images, MaxAVDs) :
                  \A i, j \in 1..Len(o) : i /= j => o[i] /= o[j]}}

\* Array.prototype.slice(-3)
LastThree(a) == IF Len(a) <= 3 THEN a ELSE SubSeq(a, Len(a) - 2, Len(a))

\* files.map(...): a descriptor from the last three segments of each path
getAVDDescriptors(files) ==
  [i \in 1..Len(files) |->
     LET info == LastThree(files[i])
     IN AVDDescriptor(Part(info, 0), Part(info, 1), Part(info, 2))]

Descriptors(v) == [t |-> "descriptors", v |-> v]

(* -------------------------- configureAVDHardware ----------------------- *)

\* the file of a system image, under the SDK root
HardwareIni(desc) ==
  <<SystemImages, desc.api, desc.platform, desc.architecture,
    Word("hardware.ini")>>

Str(s) == [t |-> "string", s |-> s]

RECURSIVE NumText(_)
\* how a number prints
NumText(n) ==
  IF n < 10 THEN <<DigitText[n + 1]>>
  ELSE Append(NumText(n \div 10), DigitText[(n % 10) + 1])

\* config[key] = value: an own key keeps its place, a new one goes last
SetKey(config, key, value) ==
  IF \E i \in 1..Len(config) : config[i].key = key
  THEN [i \in 1..Len(config) |->
          IF config[i].key = key THEN [key |-> key, value |-> value]
          ELSE config[i]]
  ELSE Append(config, [key |-> key, value |-> value])

RECURSIVE IniParse(_)
\* ini.parse: a text is its lines, each a key and a value; every value is
\* read as a string, and a key given twice keeps its last value
IniParse(text) ==
  IF text = <<>> THEN <<>>
  ELSE SetKey(IniParse(SubSeq(text, 1, Len(text) - 1)),
              text[Len(text)].key, Str(text[Len(text)].value))

\* ini.stringify: one line per key, a number printed
IniStringify(config) ==
  [i \in 1..Len(config) |->
     [key |-> config[i].key,
      value |-> IF config[i].value.t = "number"
                THEN NumText(config[i].value.n)
                ELSE config[i].value.s]]

HwKeyboard == Word("hw.keyboard")
HwBattery == Word("hw.battery")
HwRamSize == Word("hw.ramSize")
RamSize == 1024
Yes == <<"y", "e", "s">>

\* an editor that starts from an empty configuration whatever it read
ConfiguredFresh(contents) ==
  IniStringify(
    SetKey(SetKey(SetKey(<<>>, HwKeyboard, Str(Yes)), HwBattery, Str(Yes)),
           HwRamSize, Num(RamSize)))
\* configureAVDHardware: the text written for the text read
Configured(contents) ==
  IniStringify(
    SetKey(SetKey(SetKey(IniParse(contents), HwKeyboard, Str(Yes)),
                  HwBattery, Str(Yes)),
           HwRamSize, Num(RamSize)))

\* the hardware.ini a system image comes with, when it comes with one
IniFiles ==
  {<<[key |-> HwRamSize, value |-> <<"5", "1", "2">>],
     [key |-> Word("hw.lcd.density"), value |-> <<"2", "4", "0">>]>>}

FsErrors == {Err("EIO")}

(* ------------------------------- manifest ------------------------------ *)

ManifestPath == <<Word("available_avds.json")>>

\* JSON.stringify of an array of strings none of which needs an escape
JSONStringify(strings) ==
  <<"[">>
    \o Join([i \in 1..Len(strings) |-> <<"\"">> \o strings[i] \o <<"\"">>],
            <<",">>)
    \o <<"]">>

(* ------------------------ sequentialForEach steps ----------------------- *)

\* an operation started: the stage it belongs to (0: none), what it is,
\* the position of the item it is for (0: none) and its argument
Op(s, op, pos, arg) == [stage |-> s, op |-> op, pos |-> pos, arg |-> arg]

\* a rejection passes over the k-th callback of runner r
SeqPass(r, k) ==
  /\ SeqSkips(runs[r], k)
  /\ runs' = [runs EXCEPT ![r] = Settle(@, k, Before(runs[r], k))]
  /\ UNCHANGED <<cmdVars, runVars, ops>>

(* ------------------- the sequential runner on its own ------------------ *)

Items == {"a", "b"}
OpErrors == {Err("E1"), Err("E2")}

SeqInit ==
  /\ \E array \in BoundedSeq(Items, MaxItems) :
        /\ runs = [r \in Runners |->
                     IF r = "test" THEN sequentialForEach(array) ELSE NoRunner]
        /\ ops = [k \in 1..Len(array) |-> [state |-> "idle"]]
  /\ children = <<>>
  /\ request = NoRequest
  /\ NoRun
  /\ call = NoCall

\* the k-th callback calls func(x): func throws, or returns a promise
TestInvoke(k) ==
  /\ SeqReady(runs["test"], k)
  /\ trace' = Append(trace, Op(0, "func", k, <<runs["test"].array[k]>>))
  /\ \/ \E e \in OpErrors :
          /\ ops' = [ops EXCEPT ![k] = [state |-> "threw", result |-> Rejected(e)]]
          /\ runs' = [runs EXCEPT !["test"] = Settle(Invoked(@, k), k, Rejected(e))]
     \/ /\ ops' = [ops EXCEPT ![k] = [state |-> "inflight"]]
        /\ runs' = [runs EXCEPT !["test"] = Invoked(@, k)]
  /\ UNCHANGED <<children, request, stage, called, installs, glob,
                 avdDescriptors, hw, mk, disk, saving, thrown, call>>

\* the promise func returned for the k-th item settles
TestSettle(k, p) ==
  /\ k \in 1..Len(ops)
  /\ ops[k].state = "inflight"
  /\ ops' = [ops EXCEPT ![k] = [state |-> "settled", result |-> p]]
  /\ runs' = [runs EXCEPT !["test"] = Settle(@, k, p)]
  /\ UNCHANGED <<cmdVars, runVars>>

SeqNext ==
  \/ \E k \in 1..Len(ops) : TestInvoke(k)
  \/ \E k \in 1..Len(ops) :
       \E p \in {Fulfilled(Undefined)} \cup {Rejected(e) : e \in OpErrors} :
          TestSettle(k, p)
  \/ \E k \in 1..Len(ops) : SeqPass("test", k)

SpecSeq == SeqInit /\ [][SeqNext]_vars

\* the operation on the k-th item failed, with reason e
Failed(k, e) ==
  /\ ops[k].state \in {"threw", "settled"}
  /\ ops[k].result = Rejected(e)
\* the invocations made so far are those of positions 1..n, in that order
InvokedInOrder(n) ==
  /\ Len(trace) = n
  /\ \A j \in 1..n : trace[j] = Op(0, "func", j, <<runs["test"].array[j]>>)

(* C1: fail-fast: once the operation failed on the item at position i, it  *)
(* has been invoked on the items up to i, in order, and on no other; the   *)
(* runner's result never succeeds, and it fails with the error of item i   *)
(* once the rejection has passed down the chain.                           *)
C1_FailFast ==
  \A i \in 1..Len(ops) : \A e \in OpErrors :
     Failed(i, e) =>
        /\ InvokedInOrder(i)
        /\ Returned(runs["test"]) \in {Pending, Rejected(e)}
        /\ (\A k \in 1..Len(ops) : ~SeqSkips(runs["test"], k))
              => Returned(runs["test"]) = Rejected(e)
C1_Witness ==
  /\ Len(ops) = 3
  /\ Failed(2, Err("E2"))
  /\ ops[3].state = "idle"
  /\ Returned(runs["test"]) = Rejected(Err("E2"))

(* C2: one at a time, in collection order: the invocations are those of    *)
(* positions 1, 2, ... in order, each but the first made after the one     *)
(* before it completed successfully, and at most one is in flight.         *)
C2_OneAtATime ==
  /\ InvokedInOrder(Len(trace))
  /\ \A j \in 2..Len(trace) :
        /\ ops[j - 1].state = "settled"
        /\ ops[j - 1].result.state = "fulfilled"
  /\ Cardinality({k \in 1..Len(ops) : ops[k].state = "inflight"}) <= 1
C2_Witness ==
  /\ Len(trace) = 3
  /\ ops[3].state = "inflight"
  /\ runs["test"].array[1] = runs["test"].array[3]

(* -------------------- the process driver on its own -------------------- *)

\* the invocations the program makes
CmdInvocations ==
  {downloadAndroidUpdates(<<Word("platform-tool"), Word("tool")>>, FALSE, a, Caller) :
     a \in BOOLEAN}
  \cup {DeleteAVD(AVDDescriptor(Api24, DefaultPlatform, X86), <<"1">>, Caller),
        CreateAVD(AVDDescriptor(Api24, DefaultPlatform, X86), <<"1">>, Caller)}

\* the chunks a child's stdout can deliver: texts over the symbols of the
\* question and a line break, the question twice in one chunk, and a 'data'
\* event without data
Chunks(cfg) ==
  {NullData, cfg.question \o cfg.question} \cup
  (BoundedSeq({cfg.question[i] : i \in 1..Len(cfg.question)} \cup {"\n"},
              MaxChunkLen) \ {<<>>})

CmdInit ==
  /\ children = <<>>
  /\ runs = [r \in Runners |-> NoRunner]
  /\ ops = <<>>
  /\ request = NoRequest
  /\ NoRun
  /\ call = NoCall

CmdRun ==
  /\ children = <<>>
  /\ \E c \in CmdInvocations : children' = <<c>>
  /\ UNCHANGED <<seqVars, runVars>>

CmdNext ==
  \/ CmdRun
  \/ \E i \in 1..Len(children) : \E code \in ExitCodes : ChildExit(i, code)
  \/ \E i \in 1..Len(children) : \E err \in SpawnErrors : ChildError(i, err)
  \/ \E i \in 1..Len(children) :
       \E data \in Chunks(children[i].config) : ChildData(i, data)

SpecCmd == CmdInit /\ [][CmdNext]_vars

(* C4: an invocation is settled at most once: however many exit and error  *)
(* events its child delivers, resolve or reject is called at most once,    *)
(* the first event calls it, and no later event changes the promise.       *)
SettledOnce(c) ==
  /\ c.calls <= 1
  /\ c.nevents >= 1 => (c.calls = 1 /\ c.promise.state /= "pending")
LaterEventsAreNoOps ==
  \A i \in 1..Len(children) :
     children[i].promise.state /= "pending" =>
        /\ children'[i].promise = children[i].promise
        /\ children'[i].calls = children[i].calls
C4_SingleSettlement ==
  /\ [](\A i \in 1..Len(children) : SettledOnce(children[i]))
  /\ [][LaterEventsAreNoOps]_vars
C4_Witness ==
  \E i \in 1..Len(children) :
     /\ children[i].nevents >= 2
     /\ children[i].calls = 1
     /\ children[i].first.ev = "error"

(* C5: the first event decides the outcome: exit with code zero resolves,  *)
(* exit with a nonzero code rejects with that code, error rejects with the *)
(* error.                                                                  *)
OutcomeOfFirst(c) ==
  /\ (c.first.ev = "exit" /\ c.first.code = Num(0))
        => c.promise = Fulfilled(Undefined)
  /\ (c.first.ev = "exit" /\ c.first.code.t = "number" /\ c.first.code.n /= 0)
        => c.promise = Rejected(c.first.code)
  /\ c.first.ev = "error" => c.promise = Rejected(c.first.err)
C5_OutcomeMapping ==
  \A i \in 1..Len(children) : OutcomeOfFirst(children[i])
C5_Witness ==
  \E i \in 1..Len(children) :
     /\ children[i].first.ev = "error"
     /\ children[i].nevents >= 2
     /\ children[i].promise = Rejected(Err("ENOENT"))

(* C6: with a prompt-answer rule, once the output received so far holds    *)
(* the question, however it was cut into chunks, the answer and a line     *)
(* break have been written to the child's stdin.                           *)
IsData(d) == d /= NullData
Accumulated(out) == Join(SelectSeq(out, IsData), <<>>)
C6_AnsweredHoweverSplit ==
  \A i \in 1..Len(children) :
     (/\ children[i].config.listens
      /\ IndexOf(Accumulated(children[i].out), children[i].config.question) /= -1)
       => \E w \in 1..Len(children[i].stdin) :
             children[i].stdin[w] = children[i].config.answer \o <<"\n">>

(* --------------------------- the provisioning run ---------------------- *)

OldName == Join(<<Api23, GoogleApis, ArmV7a>>, <<"-">>)

\* the calls of android() explored: every host OS, licenses accepted or not,
\* with a device of an earlier run
Requests ==
  {[osType |-> os, apiLevels |-> << <<"2", "4">> >>, architectures |-> <<X86>>,
    platforms |-> <<DefaultPlatform>>, acceptLicenses |-> a,
    version |-> <<"1">>, oldAVDs |-> old] :
     os \in {"Darwin", "Windows_NT", "Linux"}, a \in BOOLEAN,
     old \in {<<OldName>>}}

\* A child of a run either cannot be spawned ('error') or runs and exits
\* with a status code ('exit').  What a child prints, and children that
\* deliver any events in any number, are explored with the process driver on
\* its own.
Running(c) == c.nevents = 0
StatusCodes == {Num(0), Num(1)}

Init ==
  /\ request \in Requests
  /\ children = <<>>
  /\ runs = [r \in Runners |-> NoRunner]
  /\ ops = <<>>
  /\ NoRun
  /\ call = NoCall

Log(s, message) == Op(s, "log", 0, Word(message))

\* a callback that also runs when the stage before it failed
StageReadyAlways(s) == s \notin called /\ stage[s - 1].state \in {"fulfilled", "rejected"}
\* .then(() => ...): the callback of stage s runs once the promise of the
\* stage before it is fulfilled
StageReady(s) == s \notin called /\ stage[s - 1].state = "fulfilled"

\* android(...): the tools, the first message, the download of the core
\* tools; the chain of .then is built at once
android ==
  /\ stage[1] = NoPromise
  /\ LET tools == <<Word("platform-tool"), Word("tool")>>
                    \o (IF Desktop(request.osType)
                        THEN <<Word("extra-intel-Hardware_Accelerated_Execution_Manager")>>
                        ELSE <<>>)
     IN children' = Append(children,
          downloadAndroidUpdates(tools, FALSE, request.acceptLicenses, StageOwner(1)))
  /\ trace' = trace \o <<Log(1, "android-sdk: Downloading additional SDK updates"),
                         Op(1, "spawn", 0, Word("update"))>>
  /\ stage' = [s \in Stages |-> Pending]
  /\ called' = {1}
  /\ UNCHANGED <<request, installs, glob, avdDescriptors, runs, hw, mk, ops,
                 disk, saving, thrown, call>>

\* stage 2: setupHardwareAcceleration; spawnSync returns result
HardwareAcceleration(result) ==
  /\ StageReady(2)
  /\ LET made == setupHardwareAcceleration(request.osType, result)
     IN /\ installs' = installs \o made
        /\ trace' = trace \o
             [i \in 1..Len(made) * 2 |->
                IF i % 2 = 1 THEN Log(2, made[(i + 1) \div 2].message)
                ELSE Op(2, "spawnSync", 0, Word(made[i \div 2].file))]
        /\ stage' = [stage EXCEPT ![2] = HardwareAccelerationStage(made)]
  /\ called' = called \cup {2}
  /\ UNCHANGED <<children, request, glob, avdDescriptors, runs, hw, mk, ops,
                 disk, saving, thrown, call>>

\* new AVDDescriptor(name) throws for one of the names
TargetsThrow(oldAVDs) ==
  \E i \in 1..Len(oldAVDs) : AVDDescriptorThrows(oldAVDs[i], NoArg)

\* stage 3: the message, the target list, the download of all components
BulkDownload ==
  /\ StageReady(3)
  /\ called' = called \cup {3}
  /\ IF TargetsThrow(request.oldAVDs)
     THEN /\ trace' = Append(trace,
                Log(3, "android-sdk: Downloading more additional SDK updates (this may take a while)"))
          /\ stage' = [stage EXCEPT ![3] = Rejected(Err("TypeError"))]
          /\ UNCHANGED children
     ELSE /\ trace' = trace \o
                <<Log(3, "android-sdk: Downloading more additional SDK updates (this may take a while)"),
                  Op(3, "spawn", 0, Word("update"))>>
          /\ children' = Append(children,
               downloadAndroidUpdates(
                 <<Word("build-tools-24.0.0")>>
                   \o getAndroidSDKTargets(request.apiLevels, request.architectures,
                                           request.platforms, request.oldAVDs),
                 TRUE, request.acceptLicenses, StageOwner(3)))
          /\ UNCHANGED stage
  /\ UNCHANGED <<request, installs, glob, avdDescriptors, runs, hw, mk, ops,
                 disk, saving, thrown, call>>

\* stage 4: getAVDDescriptors starts the directory scan
Discover ==
  /\ StageReady(4)
  /\ called' = called \cup {4}
  /\ glob' = "pending"
  /\ trace' = Append(trace, Op(4, "glob", 0, SystemImages))
  /\ UNCHANGED <<children, request, stage, installs, avdDescriptors, runs, hw,
                 mk, ops, disk, saving, thrown, call>>

\* the scan calls back: with an error, or with the paths found
GlobDone ==
  /\ glob = "pending"
  /\ glob' = "done"
  /\ \/ \E err \in FsErrors : stage' = [stage EXCEPT ![4] = Rejected(err)]
     \/ \E files \in Scans :
          stage' = [stage EXCEPT ![4] = Fulfilled(Descriptors(getAVDDescriptors(files)))]
  /\ UNCHANGED <<children, request, called, installs, avdDescriptors, runs, hw,
                 mk, ops, disk, saving, trace, thrown, call>>

\* stage 5: avdDescriptors = descriptors, the message, and the runner over
\* configureAVDHardware
ConfigureAll ==
  /\ StageReady(5)
  /\ called' = called \cup {5}
  /\ avdDescriptors' = stage[4].value.v
  /\ trace' = Append(trace, Log(5, "android-sdk: Configuring virtual device hardware"))
  /\ runs' = [runs EXCEPT !["configure"] = sequentialForEach(avdDescriptors')]
  /\ hw' = [k \in 1..Len(avdDescriptors') |-> [step |-> "idle"]]
  /\ UNCHANGED <<children, request, stage, installs, glob, mk, ops, disk,
                 saving, thrown, call>>

\* the promise sequentialForEach returned settled, and the stage with it
StageFollows(s, r) ==
  /\ s \in called
  /\ stage[s].state = "pending"
  /\ Returned(runs[r]).state /= "pending"
  /\ stage' = [stage EXCEPT ![s] = Returned(runs[r])]
  /\ UNCHANGED <<children, request, called, installs, glob, avdDescriptors,
                 runs, hw, mk, ops, disk, saving, trace, thrown, call>>

\* configureAVDHardware(sdkPath, desc) for the k-th descriptor: fs.stat
ConfigureStart(k) ==
  /\ SeqReady(runs["configure"], k)
  /\ runs' = [runs EXCEPT !["configure"] = Invoked(@, k)]
  /\ hw' = [hw EXCEPT ![k] = [step |-> "stat"]]
  /\ trace' = Append(trace, Op(5, "stat", k, HardwareIni(avdDescriptors[k])))
  /\ UNCHANGED <<children, request, stage, called, installs, glob,
                 avdDescriptors, mk, ops, disk, saving, thrown, call>>

\* the write of the configured text of contents starts
WriteConfigured(k, contents) ==
  /\ hw' = [hw EXCEPT ![k] = [step |-> "write", data |-> Configured(contents)]]
  /\ trace' = Append(trace, Op(5, "writeFile", k, HardwareIni(avdDescriptors[k])))

\* fs.stat calls back: the file is there and fs.readFile starts, or it is
\* not and the contents are ''
StatDone(k) ==
  /\ k \in 1..Len(hw)
  /\ hw[k].step = "stat"
  /\ \/ /\ hw' = [hw EXCEPT ![k] = [step |-> "read"]]
        /\ trace' = Append(trace, Op(5, "readFile", k, HardwareIni(avdDescriptors[k])))
     \/ WriteConfigured(k, <<>>)
  /\ UNCHANGED <<children, request, stage, called, installs, glob,
                 avdDescriptors, runs, mk, ops, disk, saving, thrown, call>>

\* fs.readFile calls back: with the contents and fs.writeFile starts, or
\* with an error, which no handler takes
ReadDone(k) ==
  /\ k \in 1..Len(hw)
  /\ hw[k].step = "read"
  /\ \/ /\ \E contents \in IniFiles : WriteConfigured(k, contents)
        /\ UNCHANGED runs
     \/ \E err \in FsErrors :
          /\ hw' = [hw EXCEPT ![k] = [step |-> "failed"]]
          /\ runs' = [runs EXCEPT !["configure"] = Settle(@, k, Rejected(err))]
          /\ UNCHANGED trace
  /\ UNCHANGED <<children, request, stage, called, installs, glob,
                 avdDescriptors, mk, ops, disk, saving, thrown, call>>

\* fs.writeFile calls back
WriteDone(k) ==
  /\ k \in 1..Len(hw)
  /\ hw[k].step = "write"
  /\ \/ /\ hw' = [hw EXCEPT ![k] = [step |-> "done"]]
        /\ disk' = [f \in DOMAIN disk \cup {HardwareIni(avdDescriptors[k])} |->
                      IF f = HardwareIni(avdDescriptors[k]) THEN hw[k].data
                      ELSE disk[f]]
        /\ runs' = [runs EXCEPT !["configure"] = Settle(@, k, Fulfilled(Undefined))]
     \/ \E err \in FsErrors :
          /\ hw' = [hw EXCEPT ![k] = [step |-> "failed"]]
          /\ runs' = [runs EXCEPT !["configure"] = Settle(@, k, Rejected(err))]
          /\ UNCHANGED disk
  /\ UNCHANGED <<children, request, stage, called, installs, glob,
                 avdDescriptors, mk, ops, saving, trace, thrown, call>>

\* stage 6: the runner over makeAVD
CreateAll ==
  /\ StageReady(6)
  /\ called' = called \cup {6}
  /\ runs' = [runs EXCEPT !["makeAVD"] = sequentialForEach(avdDescriptors)]
  /\ mk' = [k \in 1..Len(avdDescriptors) |->
              [swallowed |-> NoPromise, created |-> FALSE]]
  /\ UNCHANGED <<children, request, stage, installs, glob, avdDescriptors, hw,
                 ops, disk, saving, trace, thrown, call>>

\* the callback of the k-th descriptor: the message, and makeAVD starts the
\* delete command
MakeAVD(k) ==
  /\ SeqReady(runs["makeAVD"], k)
  /\ runs' = [runs EXCEPT !["makeAVD"] = Invoked(@, k)]
  /\ trace' = trace \o
       <<Op(6, "log", k, Word("android-sdk: Setting up virtual device \"")
                           \o avdDescriptors[k].name \o <<"\"">>),
         Op(6, "spawn", k, Word("delete"))>>
  /\ children' = Append(children,
       DeleteAVD(avdDescriptors[k], request.version, DeleteOwner(k)))
  /\ mk' = [mk EXCEPT ![k].swallowed = Pending]
  /\ UNCHANGED <<request, stage, called, installs, glob, avdDescriptors, hw,
                 ops, disk, saving, thrown, call>>

\* makeAVD: the callback after .then(noop, noop) starts the create command
MakeAVDCreate(k) ==
  /\ k \in 1..Len(mk)
  /\ mk[k].swallowed.state = "fulfilled"
  /\ ~mk[k].created
  /\ mk' = [mk EXCEPT ![k].created = TRUE]
  /\ trace' = Append(trace, Op(6, "spawn", k, Word("create")))
  /\ children' = Append(children,
       CreateAVD(avdDescriptors[k], request.version, CreateOwner(k)))
  /\ UNCHANGED <<request, stage, called, installs, glob, avdDescriptors, runs,
                 hw, ops, disk, saving, thrown, call>>

\* the names of the descriptors with their install suffix
ManifestOfInstallNames(descriptors, version) ==
  JSONStringify([i \in 1..Len(descriptors) |-> avdName(descriptors[i], version)])
\* JSON.stringify(avdDescriptors.map((descriptor) => descriptor.name))
ManifestOf(descriptors, version) ==
  JSONStringify([i \in 1..Len(descriptors) |-> descriptors[i].name])

\* stage 7: fs.writeFile of the manifest
WriteManifest ==
  /\ StageReady(7)
  /\ called' = called \cup {7}
  /\ saving' = [state |-> "pending",
                data |-> ManifestOf(avdDescriptors, request.version)]
  /\ trace' = Append(trace, Op(7, "writeFile", 0, ManifestPath))
  /\ UNCHANGED <<children, request, stage, installs, glob, avdDescriptors,
                 runs, hw, mk, ops, disk, thrown, call>>

\* fs.writeFile calls back
ManifestDone ==
  /\ saving.state = "pending"
  /\ \/ /\ saving' = [saving EXCEPT !.state = "done"]
        /\ disk' = [f \in DOMAIN disk \cup {ManifestPath} |->
                      IF f = ManifestPath THEN saving.data ELSE disk[f]]
        /\ stage' = [stage EXCEPT ![7] = Fulfilled(Undefined)]
     \/ \E err \in FsErrors :
          /\ saving' = [saving EXCEPT !.state = "failed"]
          /\ stage' = [stage EXCEPT ![7] = Rejected(err)]
          /\ UNCHANGED disk
  /\ UNCHANGED <<children, request, called, installs, glob, avdDescriptors,
                 runs, hw, mk, ops, trace, thrown, call>>

\* stage 8: the completion message
Complete ==
  /\ StageReady(8)
  /\ called' = called \cup {8}
  /\ trace' = Append(trace, Log(8, "android-sdk: Initialization complete"))
  /\ stage' = [stage EXCEPT ![8] = Fulfilled(Undefined)]
  /\ UNCHANGED <<children, request, installs, glob, avdDescriptors, runs, hw,
                 mk, ops, disk, saving, thrown, call>>

\* .then without a rejection handler: the rejection of a stage passes over
\* the callback of the next
StagePass(s) ==
  /\ s \notin called
  /\ stage[s].state = "pending"
  /\ stage[s - 1].state = "rejected"
  /\ stage' = [stage EXCEPT ![s] = stage[s - 1]]
  /\ UNCHANGED <<children, request, called, installs, glob, avdDescriptors,
                 runs, hw, mk, ops, disk, saving, trace, thrown, call>>

\* .done(): a rejection that reached the end of the chain is rethrown
Done ==
  /\ stage[8].state = "rejected"
  /\ thrown = NoPromise
  /\ thrown' = stage[8]
  /\ UNCHANGED <<children, request, stage, called, installs, glob,
                 avdDescriptors, runs, hw, mk, ops, disk, saving, trace, call>>

Next ==
  \/ android
  \/ \E result \in SpawnSyncResults : HardwareAcceleration(result)
  \/ BulkDownload
  \/ Discover
  \/ GlobDone
  \/ ConfigureAll
  \/ \E k \in 1..Len(hw) : ConfigureStart(k)
  \/ \E k \in 1..Len(hw) : StatDone(k)
  \/ \E k \in 1..Len(hw) : ReadDone(k)
  \/ \E k \in 1..Len(hw) : WriteDone(k)
  \/ \E k \in 1..Len(hw) : SeqPass("configure", k)
  \/ StageFollows(5, "configure")
  \/ CreateAll
  \/ \E k \in 1..Len(mk) : MakeAVD(k)
  \/ \E k \in 1..Len(mk) : MakeAVDCreate(k)
  \/ \E k \in 1..Len(mk) : SeqPass("makeAVD", k)
  \/ StageFollows(6, "makeAVD")
  \/ WriteManifest
  \/ ManifestDone
  \/ Complete
  \/ \E s \in 2..8 : StagePass(s)
  \/ Done
  \/ \E i \in 1..Len(children) : \E code \in StatusCodes :
       Running(children[i]) /\ ChildExit(i, code)
  \/ \E i \in 1..Len(children) : \E err \in SpawnErrors :
       Running(children[i]) /\ ChildError(i, err)

Spec == Init /\ [][Next]_vars

\* the invocations made for an owner
ChildrenOf(owner) == {i \in 1..Len(children) : children[i].owner = owner}
\* the operations of a stage started so far
Started(s, op) ==
  {j \in 1..Len(trace) : trace[j].stage = s /\ trace[j].op = op}

(* C3: the stages run in their order, each started only after the stage    *)
(* before it completed successfully, and once a stage failed nothing of a  *)
(* later stage is ever done: no device command, no write of the manifest,  *)
(* no completion message.                                                  *)
C3_StageOrder ==
  /\ \A i, j \in 1..Len(trace) : i < j => trace[i].stage <= trace[j].stage
  /\ \A j \in 1..Len(trace) :
        trace[j].stage > 1 => stage[trace[j].stage - 1].state = "fulfilled"
  /\ \A s \in 2..8 : s \in called => stage[s - 1].state = "fulfilled"
  /\ \A s \in Stages :
        stage[s].state = "rejected" =>
           /\ \A j \in 1..Len(trace) : trace[j].stage <= s
           /\ \A t \in Stages : t > s => (t \notin called /\ stage[t].state /= "fulfilled")
           /\ s <= 5 => \A i \in 1..Len(children) :
                           children[i].cmd \notin {"delete", "create"}
           /\ s <= 6 => (saving.state = "idle" /\ ManifestPath \notin DOMAIN disk)
           /\ s <= 7 => Started(8, "log") = {}
C3_Witness ==
  /\ Len(hw) = 2
  /\ stage[5].state = "fulfilled"
  /\ stage[6].state = "rejected"
  /\ thrown = stage[6]
  /\ Started(6, "spawn") /= {}
  /\ Started(7, "writeFile") = {}

(* C7: for every descriptor the delete command of its install name is      *)
(* started first and the create command of the same name only after the    *)
(* delete settled, whatever its outcome; a failed delete does not fail the *)
(* stage, a failed create does.                                            *)
C7_DeleteIfExists ==
  \A k \in 1..Len(mk) :
     LET dels == ChildrenOf(DeleteOwner(k))
         crs == ChildrenOf(CreateOwner(k))
         name == avdName(stage[4].value.v[k], request.version)
         ret == runs["makeAVD"].ret[k]
     IN /\ Cardinality(dels) <= 1 /\ Cardinality(crs) <= 1
        /\ \A d \in dels :
              /\ children[d].cmd = "delete" /\ children[d].args[3] = name
              /\ children[d].promise.state /= "pending"
                    => /\ mk[k].swallowed = Fulfilled(Undefined)
                       /\ crs = {} => (~mk[k].created /\ ret.state = "pending")
        /\ \A c \in crs :
              /\ children[c].cmd = "create" /\ children[c].args[3] = name
              /\ \E d \in dels : d < c /\ children[d].promise.state /= "pending"
              /\ children[c].promise.state = "rejected"
                    => /\ ret = children[c].promise
                       /\ stage[6] \in {Pending, children[c].promise}
        /\ (k \in runs["makeAVD"].called /\ ret.state = "rejected")
              => \E c \in crs : children[c].promise = ret
C7_Witness ==
  \E k \in 1..Len(mk) :
     /\ k = 2
     /\ \E d \in ChildrenOf(DeleteOwner(k)) : children[d].promise.state = "rejected"
     /\ \E c \in ChildrenOf(CreateOwner(k)) : children[c].promise.state = "fulfilled"
     /\ stage[6].state = "fulfilled"

(* C8: once stage 2 ran, the installer was run exactly when the host is    *)
(* Darwin or Windows_NT and nothing was done on another host; whatever     *)
(* spawnSync returned the stage succeeded, and what comes next is the bulk *)
(* download.                                                               *)
C8_BestEffortAcceleration ==
  /\ 2 \notin called => installs = <<>>
  /\ 2 \in called =>
       /\ Len(installs) = (IF Desktop(request.osType) THEN 1 ELSE 0)
       /\ \A i \in 1..Len(installs) :
             installs[i].file = (IF request.osType = "Darwin" THEN "sudo" ELSE "cmd")
       /\ ~Desktop(request.osType) =>
             \A j \in 1..Len(trace) : trace[j].stage /= 2
       /\ stage[2] = Fulfilled(Undefined)
       /\ 3 \in called \/ StageReady(3)
       /\ \A j \in 1..Len(trace) :
             (trace[j].stage = 2 /\ trace[j].op = "spawnSync" /\ j < Len(trace))
                => (trace[j + 1] = Log(3, "android-sdk: Downloading more additional SDK updates (this may take a while)")
                    /\ trace[j + 2] = Op(3, "spawn", 0, Word("update")))
       /\ 3 \in called =>
             (children[2].cmd = "update" /\ children[2].args[3] = Word("-a"))
C8_Witness ==
  /\ request.osType = "Windows_NT"
  /\ Len(installs) = 1
  /\ installs[1].result = Err("EACCES")
  /\ Len(children) = 2
  /\ children[2].owner = StageOwner(3)

(* C9: the manifest is written at most once, only after the hardware of    *)
(* every discovered descriptor was configured and its device created, and  *)
(* what is written is the list of the discovered descriptors' names, in    *)
(* discovery order.                                                        *)
DiscoveredNames ==
  [k \in 1..Len(stage[4].value.v) |->
     Join(<<stage[4].value.v[k].api, stage[4].value.v[k].platform,
            stage[4].value.v[k].architecture>>, <<"-">>)]
C9_Manifest ==
  /\ Cardinality(Started(7, "writeFile")) <= 1
  /\ Started(7, "writeFile") = {} =>
        (saving.state = "idle" /\ ManifestPath \notin DOMAIN disk)
  /\ Started(7, "writeFile") /= {} =>
        /\ stage[4].state = "fulfilled"
        /\ Len(hw) = Len(DiscoveredNames)
        /\ \A k \in 1..Len(DiscoveredNames) :
              /\ hw[k].step = "done"
              /\ \E c \in ChildrenOf(CreateOwner(k)) :
                    children[c].promise.state = "fulfilled"
        /\ saving.data = JSONStringify(DiscoveredNames)
        /\ ManifestPath \in DOMAIN disk =>
              (saving.state = "done" /\ disk[ManifestPath] = JSONStringify(DiscoveredNames))
C9_Witness ==
  /\ ManifestPath \in DOMAIN disk
  /\ Len(avdDescriptors) = 2
  /\ avdDescriptors[1].architecture = ArmV7a
  /\ avdDescriptors[2].architecture = X86

(* C10: at most one device-mutating operation (the configuration of an     *)
(* image's hardware, a delete command, a create command) is in progress,   *)
(* and every configuration is finished before the first delete or create   *)
(* starts.                                                                 *)
Configuring == {k \in 1..Len(hw) : hw[k].step \in {"stat", "read", "write"}}
Commanding ==
  {i \in 1..Len(children) :
     children[i].cmd \in {"delete", "create"} /\ Running(children[i])}
C10_OneDeviceOperation ==
  /\ Cardinality(Configuring) + Cardinality(Commanding) <= 1
  /\ (\E i \in 1..Len(children) : children[i].cmd \in {"delete", "create"})
        => \A k \in 1..Len(hw) : hw[k].step = "done"
C10_Witness ==
  /\ Len(hw) = 2
  /\ \E i \in Commanding : children[i].owner = CreateOwner(2)

(* -------------------- the provisioning run to its end ------------------- *)

\* what the run waits for: a child emits 'exit' or 'error', the directory
\* scan or a file operation calls back
Events ==
  \/ \E i \in 1..Len(children) : \E code \in StatusCodes :
       Running(children[i]) /\ ChildExit(i, code)
  \/ \E i \in 1..Len(children) : \E err \in SpawnErrors :
       Running(children[i]) /\ ChildError(i, err)
  \/ GlobDone
  \/ \E k \in 1..Len(hw) : StatDone(k) \/ ReadDone(k) \/ WriteDone(k)
  \/ ManifestDone

\* the callbacks of settled promises, but for that of stage 3
Callbacks ==
  \/ android
  \/ \E result \in SpawnSyncResults : HardwareAcceleration(result)
  \/ Discover
  \/ ConfigureAll
  \/ \E k \in 1..Len(hw) : ConfigureStart(k) \/ SeqPass("configure", k)
  \/ StageFollows(5, "configure")
  \/ CreateAll
  \/ \E k \in 1..Len(mk) : MakeAVD(k) \/ MakeAVDCreate(k) \/ SeqPass("makeAVD", k)
  \/ StageFollows(6, "makeAVD")
  \/ WriteManifest
  \/ Complete
  \/ \E s \in 2..8 : StagePass(s)
  \/ Done

\* Every child emits 'exit' or 'error' and every file or directory
\* operation calls back; the event loop runs every callback that is ready.
\* The last conjunct is WF_vars(BulkDownload) with its ENABLED written out:
\* the callback of stage 3 can run exactly when StageReady(3).
LiveSpec ==
  /\ Spec
  /\ WF_vars(Events)
  /\ WF_vars(Callbacks)
  /\ (<>[]StageReady(3) => []<><<BulkDownload>>_vars)

\* the completion message was logged
Completed == Started(8, "log") /= {}
\* .done() rethrew the rejection of stage s, the first stage that failed
FailedAt(s) ==
  /\ thrown = stage[s]
  /\ thrown.state = "rejected"
  /\ \A t \in Stages : t < s => stage[t].state = "fulfilled"
  /\ \A t \in Stages : t > s => (stage[t] = thrown /\ t \notin called)

(* C11: a started run eventually logs completion or fails, and does not    *)
(* stay in an intermediate stage: a run that failed rethrew the rejection  *)
(* of the first stage that failed, which every later stage passed on; a   *)
(* run that completed did not fail.                                        *)
C11_Termination ==
  /\ [](thrown.state = "rejected" => \E s \in Stages : FailedAt(s))
  /\ [](Completed => (thrown = NoPromise /\ \A s \in Stages : stage[s].state = "fulfilled"))
  /\ (stage[1] /= NoPromise) ~> (Completed \/ thrown.state = "rejected")
C11_Witness ==
  /\ FailedAt(7)
  /\ saving.state = "failed"
  /\ Len(mk) = 2

(* ------------------- getAndroidSDKTargets on its own ------------------- *)

Levels == {<<"2", "3">>, <<"2", "4">>}
Architectures == {X86}
Platforms == {DefaultPlatform, DEFAULT, GoogleApis}
\* the devices of earlier runs: the components their names were made of
OldDevices ==
  {[level |-> <<"2", "3">>, platform |-> GoogleApis, architecture |-> ArmV7a],
   [level |-> <<"2", "4">>, platform |-> DefaultPlatform, architecture |-> X86]}

\* the name an earlier run wrote to the manifest for a device
OldAVD(d) ==
  AVDDescriptor(AndroidPrefix \o d.level, d.platform, d.architecture).name

TargetsInit ==
  /\ \E apiLevels \in BoundedSeq(Levels, MaxList),
        architectures \in BoundedSeq(Architectures, MaxList),
        platforms \in BoundedSeq(Platforms, MaxList),
        old \in BoundedSeq(OldDevices, MaxList) :
        call = [fn |-> "getAndroidSDKTargets", step |-> "called",
                apiLevels |-> apiLevels, architectures |-> architectures,
                platforms |-> platforms, old |-> old,
                oldAVDs |-> [i \in 1..Len(old) |-> OldAVD(old[i])],
                targets |-> <<>>]
  /\ children = <<>>
  /\ runs = [r \in Runners |-> NoRunner]
  /\ ops = <<>>
  /\ request = NoRequest
  /\ NoRun

\* getAndroidSDKTargets(apiLevels, architectures, platforms, oldAVDs) returns,
\* or new AVDDescriptor(name) throws
TargetsReturn ==
  /\ call.fn = "getAndroidSDKTargets"
  /\ call.step = "called"
  /\ call' = IF TargetsThrow(call.oldAVDs)
             THEN [call EXCEPT !.step = "threw"]
             ELSE [call EXCEPT !.step = "returned",
                               !.targets = getAndroidSDKTargets(
                                  call.apiLevels, call.architectures,
                                  call.platforms, call.oldAVDs)]
  /\ UNCHANGED <<children, request, stage, called, installs, glob,
                 avdDescriptors, runs, hw, mk, ops, disk, saving, trace, thrown>>

TargetsNext == TargetsReturn

SpecTargets == TargetsInit /\ [][TargetsNext]_vars

(* C12: the returned target list contains no target more than once.        *)
C12_NoDuplicates ==
  call.step = "returned" =>
     \A i, j \in 1..Len(call.targets) :
        i /= j => call.targets[i] /= call.targets[j]

\* the two targets of a device of an earlier run, from its components
ApiTargetOf(d) == <<"a", "n", "d", "r", "o", "i", "d", "-">> \o d.level
SysImgTargetOf(d) ==
  <<"s", "y", "s", "-", "i", "m", "g", "-">> \o d.architecture \o <<"-">>
    \o (IF d.platform \in {DefaultPlatform, DEFAULT}
        THEN <<"a", "n", "d", "r", "o", "i", "d">> ELSE d.platform)
    \o <<"-">> \o d.level
\* the number of targets of the requested lists
RequestedCount ==
  Len(call.apiLevels)
    + Len(call.architectures) * Len(call.platforms) * Len(call.apiLevels)
\* the first device of an earlier run that has target t, and which of its
\* two targets t is
FirstWith(t) ==
  CHOOSE i \in 1..Len(call.old) :
     /\ t \in {ApiTargetOf(call.old[i]), SysImgTargetOf(call.old[i])}
     /\ \A j \in 1..(i - 1) :
           t \notin {ApiTargetOf(call.old[j]), SysImgTargetOf(call.old[j])}
Rank(t) ==
  2 * FirstWith(t) + (IF t = ApiTargetOf(call.old[FirstWith(t)]) THEN 0 ELSE 1)

(* C13: the returned list holds, for every device of an earlier run, the   *)
(* platform-package target of its API level and the system-image target of *)
(* its architecture, platform and level; what follows the targets of the   *)
(* requested lists are exactly the targets of those devices that the       *)
(* requested lists did not produce, each once, in the order of the devices *)
(* (a device's platform package before its system image).                  *)
C13_OldDevicesIncluded ==
  call.step = "returned" =>
     LET targets == call.targets
         n == RequestedCount
         requested == {targets[i] : i \in 1..n}
         wanted == UNION {{ApiTargetOf(call.old[i]), SysImgTargetOf(call.old[i])} :
                            i \in 1..Len(call.old)}
     IN /\ Len(targets) >= n
        /\ wanted \subseteq {targets[i] : i \in 1..Len(targets)}
        /\ {targets[i] : i \in (n + 1)..Len(targets)} = wanted \ requested
        /\ \A i, j \in (n + 1)..Len(targets) :
              i < j => Rank(targets[i]) < Rank(targets[j])
C13_Witness ==
  /\ call.fn = "getAndroidSDKTargets"
  /\ call.step = "returned"
  /\ Len(call.old) = 2
  /\ call.old[1].level = <<"2", "3">>
  /\ call.old[2].level = <<"2", "4">>
  /\ call.apiLevels = << <<"2", "4">> >>
  /\ Len(call.targets) = RequestedCount + 3

(* ----------------------- AVDDescriptor on its own ---------------------- *)

\* the tokens names and components are made of: a platform that is the
\* default in mixed case, a plain token, a token starting with arm, a token
\* matching v[0-9]+[a-z]+
CodecTokens ==
  {<<"D", "e", "f", "a", "u", "l", "t">>, X86,
   <<"a", "r", "m", "6", "4">>, <<"v", "8", "a">>}
\* the names of at most n tokens, as their tokens
TokenSeqs(n) == BoundedSeq(CodecTokens, n) \ {<<>>}

NoDescriptor ==
  [api |-> NoArg, platform |-> NoArg, architecture |-> NoArg, abi |-> NoArg,
   name |-> NoArg]

\* new AVDDescriptor(name), the name made of tokens ts
NameCall(ts) ==
  [fn |-> "AVDDescriptor", step |-> "called", tokens |-> <<ts>>,
   api |-> Join(ts, <<"-">>), platform |-> NoArg, architecture |-> NoArg,
   first |-> NoDescriptor, second |-> NoDescriptor]
\* new AVDDescriptor(api, platform, architecture), the components made of the
\* tokens ts cut after the i-th and the j-th
ComponentsCall(ts, i, j) ==
  [fn |-> "AVDDescriptor", step |-> "called",
   tokens |-> <<SubSeq(ts, 1, i), SubSeq(ts, i + 1, j), SubSeq(ts, j + 1, Len(ts))>>,
   api |-> Join(SubSeq(ts, 1, i), <<"-">>),
   platform |-> Join(SubSeq(ts, i + 1, j), <<"-">>),
   architecture |-> Join(SubSeq(ts, j + 1, Len(ts)), <<"-">>),
   first |-> NoDescriptor, second |-> NoDescriptor]

\* the calls of either constructor with at most n tokens in all
CodecCalls(n) ==
  {NameCall(ts) : ts \in TokenSeqs(n)}
    \cup {ComponentsCall(c[1], c[2], c[3]) :
            c \in {d \in TokenSeqs(n) \X (1..n) \X (1..n) :
                     d[2] < d[3] /\ d[3] < Len(d[1])}}

CodecInit ==
  /\ call \in CodecCalls(MaxTokens)
  /\ children = <<>>
  /\ runs = [r \in Runners |-> NoRunner]
  /\ ops = <<>>
  /\ request = NoRequest
  /\ NoRun

\* the constructor returns the descriptor, or throws
Construct ==
  /\ call.fn = "AVDDescriptor"
  /\ call.step = "called"
  /\ call' = IF AVDDescriptorThrows(call.api, call.platform)
             THEN [call EXCEPT !.step = "threw"]
             ELSE [call EXCEPT !.step = "built",
                               !.first = AVDDescriptor(call.api, call.platform,
                                                       call.architecture)]
  /\ UNCHANGED <<children, request, stage, called, installs, glob,
                 avdDescriptors, runs, hw, mk, ops, disk, saving, trace, thrown>>

\* the other constructor on what the first gave: a descriptor built from
\* components is built again from its name (as a later run does with the
\* names of the manifest), one built from a name is built again from its
\* components
Reconstruct ==
  /\ call.fn = "AVDDescriptor"
  /\ call.step = "built"
  /\ call' = [call EXCEPT
       !.step = "rebuilt",
       !.second = IF call.platform /= NoArg
                  THEN AVDDescriptor(call.first.name, NoArg, NoArg)
                  ELSE AVDDescriptor(call.first.api, call.first.platform,
                                     call.first.architecture)]
  /\ UNCHANGED <<children, request, stage, called, installs, glob,
                 avdDescriptors, runs, hw, mk, ops, disk, saving, trace, thrown>>

\* makeAVD: the create command for the descriptor
CreateFor ==
  /\ call.fn = "AVDDescriptor"
  /\ call.step = "built"
  /\ call' = [call EXCEPT !.step = "created"]
  /\ children' = <<CreateAVD(call.first, <<"1">>, Caller)>>
  /\ UNCHANGED <<request, stage, called, installs, glob, avdDescriptors, runs,
                 hw, mk, ops, disk, saving, trace, thrown>>

CodecNext == Construct \/ Reconstruct \/ CreateFor

SpecCodec == CodecInit /\ [][CodecNext]_vars

\* the call was new AVDDescriptor(name) / new AVDDescriptor(api, platform,
\* architecture)
FromName == call.fn = "AVDDescriptor" /\ call.platform = NoArg
FromComponents == call.fn = "AVDDescriptor" /\ call.platform /= NoArg

StartsWithArm(tok) ==
  Len(tok) >= 3 /\ tok[1] = "a" /\ tok[2] = "r" /\ tok[3] = "m"
\* tok holds a v, then one digit or more, then a lower-case letter
HoldsVariant(tok) ==
  \E i \in 1..Len(tok) : \E d \in 1..Len(tok) :
     /\ i + d + 1 <= Len(tok)
     /\ tok[i] = "v"
     /\ \A k \in (i + 1)..(i + d) : tok[k] \in Digits
     /\ IsLower(tok[i + d + 1])
\* the last two of the tokens ts are an arm token and a variant token
EndsInVariantPair(ts) ==
  /\ Len(ts) >= 2
  /\ StartsWithArm(ts[Len(ts) - 1])
  /\ HoldsVariant(ts[Len(ts)])

\* the components decode unambiguously: the api is two tokens, and the
\* tokens of the name end in a variant pair exactly when the architecture
\* is one
Canonical(ta, tp, tr) ==
  /\ Len(ta) = 2
  /\ \/ Len(tr) = 1 /\ ~EndsInVariantPair(tp \o tr)
     \/ Len(tr) = 2 /\ EndsInVariantPair(tr)

(* C14 as claimed: for every descriptor built from components, the         *)
(* descriptor built from its name has the same api, platform and           *)
(* architecture.                                                           *)
C14_RoundTripFromComponents ==
  (FromComponents /\ call.step = "rebuilt") =>
     /\ call.second.api = call.api
     /\ call.second.platform = call.platform
     /\ call.second.architecture = call.architecture

(* C14: for every descriptor built from components whose api is two        *)
(* tokens and whose architecture is one token, or an arm token and a       *)
(* variant token (unless the architecture is one token holding a variant   *)
(* and the platform ends in an arm token), the descriptor built from its   *)
(* name has the same api, platform and architecture.                       *)
C14_RoundTripCanonical ==
  (/\ FromComponents
   /\ call.step = "rebuilt"
   /\ Canonical(call.tokens[1], call.tokens[2], call.tokens[3])) =>
     /\ call.first.name = Join(<<call.api, call.platform, call.architecture>>, <<"-">>)
     /\ call.second.name = call.first.name
     /\ call.second.api = call.api
     /\ call.second.platform = call.platform
     /\ call.second.architecture = call.architecture
C14_Witness ==
  /\ FromComponents
  /\ call.step = "rebuilt"
  /\ Len(call.tokens[1]) = 2
  /\ call.tokens[2] = << <<"D", "e", "f", "a", "u", "l", "t">> >>
  /\ call.tokens[3] = << <<"a", "r", "m", "6", "4">>, <<"v", "8", "a">> >>
  /\ call.second.architecture =
        <<"a", "r", "m", "6", "4", "-", "v", "8", "a">>

(* C15 as claimed: every name is decoded, and the hyphen-join of the        *)
(* decoded api, platform and architecture is the name.                     *)
C15_RoundTripFromName ==
  FromName =>
     /\ call.step /= "threw"
     /\ call.step = "rebuilt" => call.second.name = call.api

\* the tokens of a name leave a platform between api and architecture
HasPlatform(ts) == Len(ts) >= (IF EndsInVariantPair(ts) THEN 5 ELSE 4)

(* C15: every name of at least four tokens (five when it ends in an arm    *)
(* token and a variant token) is decoded, the hyphen-join of the decoded   *)
(* api, platform and architecture is the name, and the platform is the     *)
(* text between the first two tokens and the architecture as it stands in  *)
(* the name, also when it is the default.                                  *)
C15_RoundTripLongNames ==
  (FromName /\ HasPlatform(call.tokens[1])) =>
     LET ts == call.tokens[1]
         last == IF EndsInVariantPair(ts) THEN 2 ELSE 1
     IN /\ call.step /= "threw"
        /\ call.step \in {"built", "rebuilt", "created"} =>
              call.first.platform = Join(SubSeq(ts, 3, Len(ts) - last), <<"-">>)
        /\ call.step = "rebuilt" =>
              /\ call.second.name = call.api
              /\ call.second.name =
                   call.first.api \o <<"-">> \o call.first.platform
                     \o <<"-">> \o call.first.architecture
C15_Witness ==
  /\ FromName
  /\ call.step = "rebuilt"
  /\ Len(call.tokens[1]) = 4
  /\ call.first.platform = <<"D", "e", "f", "a", "u", "l", "t">>
  /\ call.first.architecture = X86
  /\ call.second.name = call.api

(* C16: decoding a name gives the join of its last two tokens as the       *)
(* architecture exactly when the second-to-last token starts with arm and  *)
(* the last matches v, digits, letters; in every other case it gives the   *)
(* last token.                                                             *)
C16_VariantDetection ==
  FromName =>
     LET ts == call.tokens[1]
         n == Len(ts)
     IN /\ call.step /= "threw"
        /\ call.step \in {"built", "rebuilt", "created"} =>
              call.first.architecture =
                 (IF EndsInVariantPair(ts)
                  THEN ts[n - 1] \o <<"-">> \o ts[n]
                  ELSE ts[n])

\* platform is the word default in some letter case
IsDefault(platform) ==
  /\ Len(platform) = 7
  /\ \A k \in 1..7 : platform[k] \in {DefaultPlatform[k], DEFAULT[k]}
ExpectedAbi(platform, architecture) ==
  IF IsDefault(platform) THEN architecture
  ELSE platform \o <<"/">> \o architecture

(* C17: the abi of a descriptor, built from components or from a name, is  *)
(* its architecture when its platform is default in any letter case and    *)
(* platform/architecture otherwise, and the create command gets it as its  *)
(* --abi argument.                                                         *)
C17_AbiDerivation ==
  /\ (call.fn = "AVDDescriptor" /\ call.step \in {"built", "rebuilt", "created"}) =>
        /\ FromComponents =>
              call.first.abi = ExpectedAbi(call.platform, call.architecture)
        /\ call.first.abi = ExpectedAbi(call.first.platform, call.first.architecture)
  /\ (call.fn = "AVDDescriptor" /\ call.step = "rebuilt") =>
        call.second.abi = ExpectedAbi(call.second.platform, call.second.architecture)
  /\ \A i \in 1..Len(children) :
        (call.fn = "AVDDescriptor" /\ children[i].cmd = "create") =>
           /\ children[i].args[6] = Word("--abi")
           /\ children[i].args[7] = ExpectedAbi(call.first.platform,
                                                call.first.architecture)
C17_Witness ==
  /\ FromName
  /\ call.step = "created"
  /\ Len(call.tokens[1]) = 5
  /\ IsDefault(call.first.platform)
  /\ call.first.platform /= DefaultPlatform
  /\ children[1].args[7] = <<"a", "r", "m", "6", "4", "-", "v", "8", "a">>

(* -------------------- configureAVDHardware on its own ------------------ *)

IniKeys == {HwRamSize, HwKeyboard, Word("hw.lcd.density")}
IniValues == {<<"5", "1", "2">>, Yes, <<"n", "o">>}
IniLines == {[key |-> k, value |-> v] : k \in IniKeys, v \in IniValues}

\* the hardware.ini of one system image: absent, or a text
NoFile == [exists |-> FALSE, text |-> <<>>]
File(text) == [exists |-> TRUE, text |-> text]

EditInit ==
  /\ \E file \in {NoFile} \cup {File(text) : text \in BoundedSeq(IniLines, MaxLines)} :
        call = [fn |-> "configureAVDHardware", step |-> "idle", applied |-> 0,
                initial |-> file, file |-> file, data |-> <<>>, after |-> <<>>]
  /\ children = <<>>
  /\ runs = [r \in Runners |-> NoRunner]
  /\ ops = <<>>
  /\ request = NoRequest
  /\ NoRun

\* configureAVDHardware(sdkPath, desc): fs.stat starts
EditStart ==
  /\ call.fn = "configureAVDHardware"
  /\ call.step = "idle"
  /\ call.applied < MaxEdits
  /\ call' = [call EXCEPT !.step = "stat"]
  /\ UNCHANGED <<children, request, stage, called, installs, glob,
                 avdDescriptors, runs, hw, mk, ops, disk, saving, trace, thrown>>

\* fs.stat calls back: the file is there and fs.readFile starts, or it is
\* not, the contents are '' and fs.writeFile starts
EditStat ==
  /\ call.fn = "configureAVDHardware"
  /\ call.step = "stat"
  /\ call' = IF call.file.exists
             THEN [call EXCEPT !.step = "read"]
             ELSE [call EXCEPT !.step = "write", !.data = Configured(<<>>)]
  /\ UNCHANGED <<children, request, stage, called, installs, glob,
                 avdDescriptors, runs, hw, mk, ops, disk, saving, trace, thrown>>

\* fs.readFile calls back: with the contents and fs.writeFile starts, or
\* with an error
EditRead ==
  /\ call.fn = "configureAVDHardware"
  /\ call.step = "read"
  /\ \/ call' = [call EXCEPT !.step = "write",
                             !.data = Configured(call.file.text)]
     \/ call' = [call EXCEPT !.step = "failed"]
  /\ UNCHANGED <<children, request, stage, called, installs, glob,
                 avdDescriptors, runs, hw, mk, ops, disk, saving, trace, thrown>>

\* fs.writeFile calls back: the file holds the data, or an error
EditWrite ==
  /\ call.fn = "configureAVDHardware"
  /\ call.step = "write"
  /\ \/ call' = [call EXCEPT !.step = "idle",
                             !.applied = @ + 1,
                             !.file = File(call.data),
                             !.after = IF call.applied = 0 THEN call.data ELSE @]
     \/ call' = [call EXCEPT !.step = "failed"]
  /\ UNCHANGED <<children, request, stage, called, installs, glob,
                 avdDescriptors, runs, hw, mk, ops, disk, saving, trace, thrown>>

EditNext == EditStart \/ EditStat \/ EditRead \/ EditWrite

SpecEdit == EditInit /\ [][EditNext]_vars

\* the keys of a text, and the value its last line for a key gives
KeysOf(text) == {text[i].key : i \in 1..Len(text)}
ValueOf(text, key) ==
  text[CHOOSE i \in 1..Len(text) :
         /\ text[i].key = key
         /\ \A j \in (i + 1)..Len(text) : text[j].key /= key].value
FixedKeys == {HwKeyboard, HwBattery, HwRamSize}

(* C18: after one application the file has hw.keyboard = yes, hw.battery = *)
(* yes and hw.ramSize = 1024, each key once, and every other key the file  *)
(* had before, with the value it had, and no further key; an absent file   *)
(* is edited like an empty one; after a second application the file is     *)
(* what it was after the first.                                            *)
C18_IdempotentEdit ==
  (call.fn = "configureAVDHardware" /\ call.applied >= 1) =>
     LET text == call.file.text
         before == call.initial.text
     IN /\ call.file.exists
        /\ \A i, j \in 1..Len(text) : i /= j => text[i].key /= text[j].key
        /\ KeysOf(text) = KeysOf(before) \cup FixedKeys
        /\ ValueOf(text, HwKeyboard) = <<"y", "e", "s">>
        /\ ValueOf(text, HwBattery) = <<"y", "e", "s">>
        /\ ValueOf(text, HwRamSize) = <<"1", "0", "2", "4">>
        /\ \A k \in KeysOf(before) \ FixedKeys :
              ValueOf(text, k) = ValueOf(before, k)
        /\ call.applied >= 2 => text = call.after
C18_Witness ==
  /\ call.fn = "configureAVDHardware"
  /\ call.applied = 2
  /\ Len(call.initial.text) = 2
  /\ call.initial.text[1].key = Word("hw.lcd.density")
  /\ call.initial.text[2].key = HwRamSize
  /\ call.file.text = call.after

(* ------------------ the provisioning run with killed tools ------------- *)

\* a child that runs is ended by a signal: 'exit' with a null code
Killed ==
  \E i \in 1..Len(children) : Running(children[i]) /\ ChildExit(i, Null)

\* the run on a Linux host that does not accept licences
KillInit == Init /\ request.osType = "Linux" /\ ~request.acceptLicenses
KillNext == Next \/ Killed

SpecKill == KillInit /\ [][KillNext]_vars

\* the child of invocation i was ended by a signal
WasKilled(i) ==
  children[i].first.ev = "exit" /\ children[i].first.code = Null

(* C19: an exit event with a null code settles the invocation as exit with *)
(* code zero does, as a success; a stage whose tool was killed is          *)
(* fulfilled and the next stage's callback runs, a killed delete is        *)
(* followed by the create, and a killed create counts as a device made.    *)
C19_KilledIsSuccess ==
  \A i \in 1..Len(children) :
     WasKilled(i) =>
        /\ children[i].promise = Fulfilled(Undefined)
        /\ children[i].calls = 1
        /\ \A s \in Stages :
              children[i].owner = StageOwner(s) =>
                 /\ stage[s] = Fulfilled(Undefined)
                 /\ (s + 1) \in called \/ StageReady(s + 1)
        /\ \A k \in 1..Len(mk) :
              /\ children[i].owner = DeleteOwner(k) =>
                    /\ mk[k].swallowed = Fulfilled(Undefined)
                    /\ mk[k].created \/ ENABLED MakeAVDCreate(k)
              /\ children[i].owner = CreateOwner(k) =>
                    runs["makeAVD"].ret[k] = Fulfilled(Undefined)
C19_Witness ==
  /\ Completed
  /\ Len(children) = 6
  /\ \A i \in 1..Len(children) : WasKilled(i)

(* ------------------------- the responder's answers --------------------- *)

\* the chunk is text that holds the question
HoldsQuestion(chunk, question) ==
  /\ chunk /= NullData
  /\ \E i \in 1..Len(chunk) :
        /\ i + Len(question) - 1 <= Len(chunk)
        /\ \A k \in 1..Len(question) : chunk[i + k - 1] = question[k]

(* C20: the responder keeps nothing between chunks: what was written to    *)
(* the child's stdin is one answer and line break for each chunk that      *)
(* holds the question by itself, once however often the chunk holds it,    *)
(* and nothing for any other chunk; a child without a responder is written *)
(* nothing.                                                                *)
C20_StatelessResponder ==
  \A i \in 1..Len(children) :
     LET c == children[i]
         answered == {k \in 1..Len(c.out) : HoldsQuestion(c.out[k], c.config.question)}
     IN /\ c.config.listens =>
              /\ Len(c.stdin) = Cardinality(answered)
              /\ \A w \in 1..Len(c.stdin) : c.stdin[w] = c.config.answer \o <<"\n">>
        /\ ~c.config.listens => c.stdin = <<>>
C20_Witness ==
  \E i \in 1..Len(children) :
     /\ children[i].config.listens
     /\ Len(children[i].out) = 2
     /\ children[i].out[1] = children[i].config.question \o children[i].config.question
     /\ children[i].out[2] = children[i].config.question
     /\ Len(children[i].stdin) = 2

====
